---- MODULE Spec2Model ----
(***************************************************************************)
(* Watcharr server: authentication and identity (server/auth.go) and the   *)
(* routes that expose or are gated by it (server/routes.go).               *)
(*                                                                         *)
(* The users table is a sequence of rows whose position is the row's       *)
(* auto-increment primary key.  Strings that the code parses are kept in   *)
(* their parsed shape: an encoded password hash is the list of fields that *)
(* strings.Split(encodedHash, "$") yields, the empty string is <<"">>.     *)
(***************************************************************************)
EXTENDS Integers, Sequences, FiniteSets, TLC

VARIABLES
    users,          \* rows of the users table, users[i].id = i
    watched,        \* rows of the watched table (the UserID column)
    secret,         \* os.Getenv("JWT_SECRET")
    jellyfinHost,   \* os.Getenv("JELLYFIN_HOST")
    now,            \* time.Now()
    running,        \* the server process is alive
    issued,         \* tokens handed out in responses and still held by callers
    jf,             \* in-flight loginJellyfin calls, one per worker
    reg,            \* in-flight register calls, one per worker
    last            \* the most recently completed HTTP exchange

vars == <<users, watched, secret, jellyfinHost, now, running, issued, jf, reg,
          last>>

----------------------------------------------------------------------------
(* Bounds of the model *)

MaxUsers == 2
MaxTime == 1
MaxHeld == 1
MaxWatched == 1

(* Inputs *)

Names == {"alice", "bob"}
Passwords == {"pw1", "pw2"}
Salts == {"saltA", "saltB"}
Secrets == {"k1", "k2"}
ForgedKeys == {"guess"}
ThirdPartyIds == {"X1", "X2"}
HostOk == "http://jf"
HostBad == "http://[jf"
Hosts == {"", HostOk}
Workers == {"w1", "w2"}

\* Request bodies: every well-formed one, and one with each required field
\* missing.
Body(u, p, ut) == [username |-> u, password |-> p, type |-> ut]
RegisterBodies ==
    {Body(u, p, ut) : u \in Names, p \in Passwords, ut \in {0, 1}}
    \cup {Body("", "pw1", 0), Body("alice", "", 0)}
LoginBodies ==
    {Body(u, p, 0) : u \in Names, p \in Passwords}
    \cup {Body("", "pw1", 0), Body("alice", "", 0)}
JellyfinBodies == {Body("alice", "pw1", 0), Body("", "pw1", 0)}
\* The callers of the session flows: alice with either password, and bob.
SessionBodies == {Body("alice", "pw1", 0), Body("alice", "pw2", 0),
                  Body("bob", "pw1", 0)}
RotateBodies == {Body("alice", "pw1", 0)}
\* Logins where only the identity matters: the right password for every
\* name, and a wrong one for alice.
IdentityLogins ==
    {b \in LoginBodies : b.password # "pw2"} \cup {Body("alice", "pw2", 0)}
\* Registrations where only the identity matters: one password.
IdentityBodies == {b \in RegisterBodies : b.password # "pw2"}

(* Program constants *)

LOCAL_USER == 0
JELLYFIN_USER == 1
UserTypes == {LOCAL_USER, JELLYFIN_USER}
Argon2Version == 19
ArgonMemory == 65536
ArgonIterations == 3
ArgonParallelism == 2
ArgonKeyLength == 32

EmptyStr == <<"">>

(* Caller-visible error strings *)

ErrNone == ""
ErrUserExists == "User already exists"
ErrUnknown == "unknown error"
ErrNoId == "failed to get user id, try login"
ErrToken == "failed to get auth token"
ErrNoUser == "User does not exist"
ErrLoginFailed == "failed to login"
ErrIncorrect == "incorrect details"
ErrJfDisabled == "jellyfin login not enabled"
ErrJfUri == "failed to parse api uri"
ErrJfRequest == "request failed"
ErrJfRead == "unexpected EOF"
ErrJfProcess == "failed to process response"
ErrJfEmptyId == "jellyfin returned empty user id"
ErrJfCreate == "failed to create new user from jellyfin"
ErrJfLocate == "error locating user in db"

----------------------------------------------------------------------------
(* PasswordHasher *)

\* argon2.IDKey: a deterministic function of all of its arguments.
IDKey(password, salt, t, m, p, keyLen) ==
    [pw |-> password, salt |-> salt, t |-> t, m |-> m, p |-> p, len |-> keyLen]

\* base64.RawStdEncoding.EncodeToString / Strict().DecodeString
B64Encode(bytes) == <<"b64", bytes>>
B64Valid(s) == Len(s) = 2 /\ s[1] = "b64"
B64Decode(s) == s[2]

\* hashPassword with the salt that generateRandomBytes returned.
EncodeHash(password, salt) ==
    << "",
       "argon2id",
       <<"v=", Argon2Version>>,
       <<"m=", ArgonMemory, "t=", ArgonIterations, "p=", ArgonParallelism>>,
       B64Encode(salt),
       B64Encode(IDKey(password, salt, ArgonIterations, ArgonMemory,
                       ArgonParallelism, ArgonKeyLength)) >>

hashPassword(password, salt, randOk) ==
    IF ~randOk THEN [err |-> TRUE, hash |-> EmptyStr]
    ELSE [err |-> FALSE, hash |-> EncodeHash(password, salt)]

\* decodeHash without the argon2.Version comparison.
decodeHash_AnyVersion(encodedHash) ==
    LET vals == encodedHash
        bad == [err |-> TRUE, m |-> 0, t |-> 0, p |-> 0, salt |-> "", hash |-> ""]
    IN  IF Len(vals) # 6 THEN bad
        ELSE IF ~(Len(vals[3]) = 2 /\ vals[3][1] = "v=") THEN bad
        ELSE IF ~(Len(vals[4]) = 6 /\ vals[4][1] = "m=" /\ vals[4][3] = "t="
                  /\ vals[4][5] = "p=") THEN bad
        ELSE IF ~B64Valid(vals[5]) THEN bad
        ELSE IF ~B64Valid(vals[6]) THEN bad
        ELSE [err |-> FALSE, m |-> vals[4][2], t |-> vals[4][4], p |-> vals[4][6],
              salt |-> B64Decode(vals[5]), hash |-> B64Decode(vals[6])]

\* decodeHash: six fields, "v=%d" equal to argon2.Version, "m=%d,t=%d,p=%d",
\* two strict base64 fields.
decodeHash(encodedHash) ==
    LET vals == encodedHash
        bad == [err |-> TRUE, m |-> 0, t |-> 0, p |-> 0, salt |-> "", hash |-> ""]
    IN  IF Len(vals) # 6 THEN bad
        ELSE IF ~(Len(vals[3]) = 2 /\ vals[3][1] = "v=") THEN bad
        ELSE IF vals[3][2] # Argon2Version THEN bad
        ELSE IF ~(Len(vals[4]) = 6 /\ vals[4][1] = "m=" /\ vals[4][3] = "t="
                  /\ vals[4][5] = "p=") THEN bad
        ELSE IF ~B64Valid(vals[5]) THEN bad
        ELSE IF ~B64Valid(vals[6]) THEN bad
        ELSE [err |-> FALSE, m |-> vals[4][2], t |-> vals[4][4], p |-> vals[4][6],
              salt |-> B64Decode(vals[5]), hash |-> B64Decode(vals[6])]

compareHash(password, encodedHash) ==
    LET d == decodeHash(encodedHash)
    IN  IF d.err THEN [err |-> TRUE, match |-> FALSE]
        ELSE [err |-> FALSE,
              match |-> (d.hash = IDKey(password, d.salt, d.t, d.m, d.p,
                                         d.hash.len))]

----------------------------------------------------------------------------
(* TokenService *)

NoExp == -1
NoToken == [alg |-> "-", userId |-> 0, username |-> "", iat |-> 0,
            exp |-> NoExp, iss |-> "", key |-> ""]

\* signJWT with the commented-out ExpiresAt claim switched on.
signJWT_Expiring(user, key, t) ==
    [alg |-> "HS256", userId |-> user.id, username |-> user.username,
     iat |-> t, exp |-> t + 1, iss |-> "watcharr", key |-> key]

\* signJWT: HS256 over {userId, username, iat, iss} with JWT_SECRET; the
\* ExpiresAt claim is commented out in the source.
signJWT(user, key, t) ==
    [alg |-> "HS256", userId |-> user.id, username |-> user.username,
     iat |-> t, exp |-> NoExp, iss |-> "watcharr", key |-> key]

\* An Authorization header: absent, not a JWT at all, or a JWT.
NoHeader == [kind |-> "absent", token |-> NoToken]
BadHeader == [kind |-> "malformed", token |-> NoToken]
Bearer(tok) == [kind |-> "jwt", token |-> tok]

\* ParseWithClaims with the parser option that makes the exp claim required.
ParseWithClaims_ExpRequired(header, key, t) ==
    /\ header.kind = "jwt"
    /\ header.token.alg = "HS256"
    /\ header.token.key = key
    /\ header.token.exp # NoExp
    /\ t < header.token.exp

\* jwt.ParseWithClaims(atoken, &TokenClaims{}, keyfunc) and token.Valid:
\* the signature is checked with the key the keyfunc returns, then exp if set.
ParseWithClaims(header, key, t) ==
    /\ header.kind = "jwt"
    /\ header.token.alg = "HS256"
    /\ header.token.key = key
    /\ (header.token.exp # NoExp => t < header.token.exp)

\* AuthRequired that goes on to the handler after a failed parse.
AuthRequired_IgnoresParseError(header, key, t) ==
    IF header.kind = "absent" THEN [next |-> FALSE, userId |-> 0]
    ELSE [next |-> TRUE, userId |-> header.token.userId]

\* The AuthRequired middleware: whether c.Next() is reached, and the userId it
\* put in the context.
AuthRequired(header, key, t) ==
    IF header.kind = "absent" THEN [next |-> FALSE, userId |-> 0]
    ELSE IF ~ParseWithClaims(header, key, t) THEN [next |-> FALSE, userId |-> 0]
    ELSE [next |-> TRUE, userId |-> header.token.userId]

\* Tokens made by someone who does not know JWT_SECRET.
ForgedTokens ==
    {[alg |-> "HS256", userId |-> 1, username |-> "alice", iat |-> 0,
      exp |-> NoExp, iss |-> "watcharr", key |-> k] : k \in ForgedKeys}
    \cup {[alg |-> "none", userId |-> 1, username |-> "alice", iat |-> 0,
           exp |-> NoExp, iss |-> "watcharr", key |-> ""]}

----------------------------------------------------------------------------
(* IdentityStore: the users table behind gorm *)

NoUser == [id |-> 0, username |-> "", password |-> EmptyStr,
           type |-> LOCAL_USER, thirdPartyId |-> ""]

\* uniqueIndex usr_name_to_type on (Username, Type)
UniqueViolation(rows, rec) ==
    \E i \in 1..Len(rows) :
        rows[i].username = rec.username /\ rows[i].type = rec.type

\* DbCreate without the usr_name_to_type index.
DbCreate_NoIndex(rows, rec) ==
    LET row == [rec EXCEPT !.id = Len(rows) + 1]
    IN  [err |-> "", rows |-> Append(rows, row), user |-> row]

\* DbCreate as an upsert: on a conflict the stored row is overwritten.
DbCreate_Upsert(rows, rec) ==
    IF UniqueViolation(rows, rec)
    THEN LET i == CHOOSE k \in 1..Len(rows) :
                     rows[k].username = rec.username /\ rows[k].type = rec.type
             row == [rec EXCEPT !.id = i]
         IN  [err |-> "", rows |-> [rows EXCEPT ![i] = row], user |-> row]
    ELSE LET row == [rec EXCEPT !.id = Len(rows) + 1]
         IN  [err |-> "", rows |-> Append(rows, row), user |-> row]

\* db.Create(&user): the insert fails on the unique index, otherwise the row
\* gets the next primary key and gorm writes it back into the struct.
DbCreate(rows, rec) ==
    IF UniqueViolation(rows, rec)
    THEN [err |-> "UNIQUE", rows |-> rows, user |-> rec]
    ELSE LET row == [rec EXCEPT !.id = Len(rows) + 1]
         IN  [err |-> "", rows |-> Append(rows, row), user |-> row]

\* The login lookup by username alone.
LocalMatches_AnyType(rows, name) ==
    {i \in 1..Len(rows) : rows[i].username = name}

\* db.Where("username = ? AND (type IS NULL OR type = 0)", name).Take(&dbUser)
LocalMatches(rows, name) ==
    {i \in 1..Len(rows) : rows[i].username = name /\ rows[i].type = LOCAL_USER}

\* The jellyfin lookup by the name the provider returned instead of its id.
ThirdPartyMatches_ByName(rows, id) ==
    {i \in 1..Len(rows) :
        rows[i].type = JELLYFIN_USER /\ rows[i].username = id}

\* db.Where("third_party_id = ?", id).Take(&dbUser)
ThirdPartyMatches(rows, id) ==
    {i \in 1..Len(rows) : rows[i].thirdPartyId = id}

----------------------------------------------------------------------------
(* AuthenticationService *)

Result(status, err, token, rows) ==
    [fatal |-> FALSE, status |-> status, err |-> err, token |-> token,
     rows |-> rows]

\* register that does not recognise the unique-constraint failure.
register_UniqueAsUnknown(rows, user, salt, randOk, key, t) ==
    LET h == hashPassword(user.password, salt, randOk)
        res == DbCreate(rows, [user EXCEPT !.password = h.hash])
    IN  IF h.err
        THEN [Result(0, ErrNone, NoToken, rows) EXCEPT !.fatal = TRUE]
        ELSE IF res.err # ""
        THEN Result(403, ErrUnknown, NoToken, rows)
        ELSE Result(200, ErrNone, signJWT(res.user, key, t), res.rows)

\* register that signs the struct as it was bound, before the insert filled
\* in its ID, and does not check the ID.
register_SignsBoundUser(rows, user, salt, randOk, key, t) ==
    LET h == hashPassword(user.password, salt, randOk)
        res == DbCreate(rows, [user EXCEPT !.password = h.hash])
    IN  IF h.err
        THEN [Result(0, ErrNone, NoToken, rows) EXCEPT !.fatal = TRUE]
        ELSE IF res.err # ""
        THEN IF res.err = "UNIQUE"
             THEN Result(403, ErrUserExists, NoToken, rows)
             ELSE Result(403, ErrUnknown, NoToken, rows)
        ELSE Result(200, ErrNone, signJWT(user, key, t), res.rows)

\* register(user, db): user is the struct bound from the request body, so
\* user.type is whatever the body said.
register(rows, user, salt, randOk, key, t) ==
    LET h == hashPassword(user.password, salt, randOk)
    IN  IF h.err
        THEN [Result(0, ErrNone, NoToken, rows) EXCEPT !.fatal = TRUE]
        ELSE LET res == DbCreate(rows, [user EXCEPT !.password = h.hash])
             IN  IF res.err # ""
                 THEN IF res.err = "UNIQUE"
                      THEN Result(403, ErrUserExists, NoToken, rows)
                      ELSE Result(403, ErrUnknown, NoToken, rows)
                 ELSE IF res.user.id = 0
                 THEN Result(403, ErrNoId, NoToken, res.rows)
                 ELSE Result(200, ErrNone, signJWT(res.user, key, t), res.rows)

\* login(user, db) once the row lookup has returned dbUser (NoUser: no row).
login(dbUser, password, key, t) ==
    IF dbUser.id = 0
    THEN [status |-> 403, err |-> ErrNoUser, token |-> NoToken]
    ELSE LET c == compareHash(password, dbUser.password)
         IN  IF c.err
             THEN [status |-> 403, err |-> ErrLoginFailed, token |-> NoToken]
             ELSE IF ~c.match
             THEN [status |-> 403, err |-> ErrIncorrect, token |-> NoToken]
             ELSE [status |-> 200, err |-> ErrNone,
                   token |-> signJWT(dbUser, key, t)]

\* c.ShouldBindJSON(&user): Username and Password are binding:"required".
BindUser(username, password) == username # "" /\ password # ""

----------------------------------------------------------------------------------------------------------------------------------------
(* DelegatedAuthClient: what client.Do and the response body can turn out as *)

ProviderOutcomes ==
    {[kind |-> k, id |-> "", name |-> ""] :
        k \in {"transport", "read", "status", "unparsable"}}
    \cup {[kind |-> "ok", id |-> i, name |-> n] :
            i \in ThirdPartyIds, n \in Names}
    \cup {[kind |-> "ok", id |-> "", name |-> "alice"]}

\* url.Parse(jellyfinHost + "/Users/AuthenticateByName")
UrlParses(host) == host # HostBad

\* loginJellyfin without the JELLYFIN_HOST check.
loginJellyfinConfig_NoHostCheck(host) ==
    IF ~UrlParses(host) THEN ErrJfUri ELSE ErrNone

\* loginJellyfin before anything is sent: "" when the request goes out.
loginJellyfinConfig(host) ==
    IF host = "" THEN ErrJfDisabled
    ELSE IF ~UrlParses(host) THEN ErrJfUri
    ELSE ErrNone

\* loginJellyfinResponse without the empty user id check.
loginJellyfinResponse_NoEmptyIdCheck(o) ==
    IF o.kind = "transport" THEN ErrJfRequest
    ELSE IF o.kind = "read" THEN ErrJfRead
    ELSE IF o.kind = "status" THEN ErrIncorrect
    ELSE IF o.kind = "unparsable" THEN ErrJfProcess
    ELSE ErrNone

\* loginJellyfin from client.Do to the empty-id check: "" when the response
\* carries a user id.
loginJellyfinResponse(o) ==
    IF o.kind = "transport" THEN ErrJfRequest
    ELSE IF o.kind = "read" THEN ErrJfRead
    ELSE IF o.kind = "status" THEN ErrIncorrect
    ELSE IF o.kind = "unparsable" THEN ErrJfProcess
    ELSE IF o.id = "" THEN ErrJfEmptyId
    ELSE ErrNone

\* The row loginJellyfin builds when the lookup found none.
JellyfinRow(id, name) ==
    [NoUser EXCEPT !.thirdPartyId = id, !.username = name,
                   !.type = JELLYFIN_USER]

\* A handler that panicked wrote no response of its own (status 0): the
\* caller gets what the recovery around it sends, never an error body.
PanicStatus == 0

----------------------------------------------------------------------------
(* The HTTP exchange most recently completed *)

NoExchange ==
    [op |-> "none", status |-> 0, err |-> ErrNone, token |-> NoToken,
     username |-> "", password |-> "", utype |-> LOCAL_USER,
     thirdPartyId |-> "", phase |-> "", called |-> FALSE, auth |-> "",
     ran |-> FALSE, userId |-> 0, panic |-> FALSE]

Exchange(op, username, utype, status, err, token) ==
    [NoExchange EXCEPT !.op = op, !.username = username, !.utype = utype,
                       !.status = status, !.err = err, !.token = token]

JfExchange(phase, id, called, status, err, token) ==
    [NoExchange EXCEPT !.op = "jellyfin", !.phase = phase,
                       !.thirdPartyId = id, !.called = called,
                       !.status = status, !.err = err, !.token = token]

IdleCall == [pc |-> "idle", thirdPartyId |-> "", name |-> ""]

\* A register call: the body it was bound from and the salt it drew, then the
\* response it gave.
IdleReg == [pc |-> "idle", username |-> "", password |-> "", type |-> LOCAL_USER,
            salt |-> "", status |-> 0, err |-> ErrNone, token |-> NoToken]

Init ==
    /\ users = << >>
    /\ watched = << >>
    /\ secret = "k1"
    /\ jellyfinHost \in Hosts
    /\ now = 0
    /\ running = TRUE
    /\ issued = {}
    /\ jf = [w \in Workers |-> IdleCall]
    /\ reg = [w \in Workers |-> IdleReg]
    /\ last = NoExchange

\* POST /auth/register.  The entropy source works here; RegisterFatal is the
\* step where it does not.
Register(u, p, ut, salt) ==
    /\ running
    /\ IF ~BindUser(u, p)
       THEN /\ last' = Exchange("register", u, ut, 400, ErrNone, NoToken)
            /\ UNCHANGED users
       ELSE LET r == register(users,
                              [NoUser EXCEPT !.username = u, !.password = p,
                                             !.type = ut],
                              salt, TRUE, secret, now)
            IN  /\ Len(r.rows) <= MaxUsers
                /\ users' = r.rows
                /\ last' = [Exchange("register", u, ut, r.status, r.err, r.token)
                                EXCEPT !.password = p]
    /\ UNCHANGED <<watched, secret, jellyfinHost, now, running, issued, jf>>
    /\ UNCHANGED reg

\* POST /auth/register when generateRandomBytes fails: log.Fatal ends the
\* process and every request in flight with it.
RegisterFatal(u, p, ut, salt) ==
    /\ running
    /\ BindUser(u, p)
    /\ register(users, [NoUser EXCEPT !.username = u, !.password = p,
                                      !.type = ut],
                salt, FALSE, secret, now).fatal
    /\ running' = FALSE
    /\ jf' = [w \in Workers |-> IdleCall]
    /\ reg' = [w \in Workers |-> IdleReg]
    /\ UNCHANGED <<users, watched, secret, jellyfinHost, now, issued, last>>

\* POST /auth/register as it runs beside other requests: the body is bound and
\* the password hashed (RegStart), then db.Create runs against the table as it
\* is by then and the response is written (RegCreate).
RegStart(w, u, p, ut, salt) ==
    /\ running
    /\ reg[w].pc = "idle"
    /\ IF ~BindUser(u, p)
       THEN /\ reg' = [reg EXCEPT ![w] =
                         [IdleReg EXCEPT !.pc = "done", !.username = u,
                                         !.password = p, !.type = ut,
                                         !.status = 400]]
            /\ last' = Exchange("register", u, ut, 400, ErrNone, NoToken)
       ELSE /\ ~hashPassword(p, salt, TRUE).err
            /\ reg' = [reg EXCEPT ![w] =
                         [IdleReg EXCEPT !.pc = "create", !.username = u,
                                         !.password = p, !.type = ut,
                                         !.salt = salt]]
            /\ UNCHANGED last
    /\ UNCHANGED <<users, watched, secret, jellyfinHost, now, running, issued, jf>>

RegCreate(w) ==
    /\ running
    /\ reg[w].pc = "create"
    /\ LET r == register(users,
                         [NoUser EXCEPT !.username = reg[w].username,
                                        !.password = reg[w].password,
                                        !.type = reg[w].type],
                         reg[w].salt, TRUE, secret, now)
       IN  /\ Len(r.rows) <= MaxUsers
           /\ users' = r.rows
           /\ reg' = [reg EXCEPT ![w].pc = "done", ![w].status = r.status,
                                 ![w].err = r.err, ![w].token = r.token]
           /\ last' = [Exchange("register", reg[w].username, reg[w].type,
                                r.status, r.err, r.token)
                           EXCEPT !.password = reg[w].password]
    /\ UNCHANGED <<watched, secret, jellyfinHost, now, running, issued, jf>>

\* The rows Take can return for a login: any matching one, NoUser if none.
TakeLocal(rows, name) ==
    IF LocalMatches(rows, name) = {} THEN {NoUser}
    ELSE {rows[i] : i \in LocalMatches(rows, name)}

\* POST /auth/
Login(u, p) ==
    /\ running
    /\ IF ~BindUser(u, p)
       THEN last' = Exchange("login", u, LOCAL_USER, 400, ErrNone, NoToken)
       ELSE \E dbUser \in TakeLocal(users, u) :
                LET r == login(dbUser, p, secret, now)
                IN  last' = [Exchange("login", u, LOCAL_USER, r.status, r.err,
                                      r.token) EXCEPT !.password = p]
    /\ UNCHANGED <<users, watched, secret, jellyfinHost, now, running, issued, jf>>
    /\ UNCHANGED reg

\* POST /auth/jellyfin, up to the outbound request
JfStart(w, u, p) ==
    /\ running
    /\ jf[w].pc = "idle"
    /\ IF ~BindUser(u, p)
       THEN /\ last' = [Exchange("jellyfin", u, LOCAL_USER, 400, ErrNone, NoToken)
                            EXCEPT !.phase = "bind"]
            /\ UNCHANGED jf
       ELSE IF loginJellyfinConfig(jellyfinHost) # ErrNone
       THEN /\ last' = JfExchange("config", "", FALSE, 403,
                                  loginJellyfinConfig(jellyfinHost), NoToken)
            /\ UNCHANGED jf
       ELSE /\ jf' = [jf EXCEPT ![w].pc = "await"]
            /\ UNCHANGED last
    /\ UNCHANGED <<users, watched, secret, jellyfinHost, now, running, issued>>
    /\ UNCHANGED reg

\* client.Do returns; the response is processed and the row looked up
JfRespond(w, o) ==
    /\ running
    /\ jf[w].pc = "await"
    /\ IF loginJellyfinResponse(o) # ErrNone
       THEN /\ last' = JfExchange("provider", o.id, TRUE, 403,
                                  loginJellyfinResponse(o), NoToken)
            /\ jf' = [jf EXCEPT ![w] = IdleCall]
       ELSE IF ThirdPartyMatches(users, o.id) # {}
       THEN \E i \in ThirdPartyMatches(users, o.id) :
                /\ last' = [JfExchange("found", o.id, TRUE, 200, ErrNone,
                                       signJWT(users[i], secret, now))
                                EXCEPT !.username = o.name]
                /\ jf' = [jf EXCEPT ![w] = IdleCall]
       ELSE /\ jf' = [jf EXCEPT ![w] = [pc |-> "create", thirdPartyId |-> o.id,
                                        name |-> o.name]]
            /\ UNCHANGED last
    /\ UNCHANGED <<users, watched, secret, jellyfinHost, now, running, issued>>
    /\ UNCHANGED reg

\* db.Create of the new jellyfin user and what follows it.  On a failed insert
\* the log call evaluates err.Error() with err == nil: the handler panics.
JfCreate(w) ==
    /\ running
    /\ jf[w].pc = "create"
    /\ LET res == DbCreate(users, JellyfinRow(jf[w].thirdPartyId, jf[w].name))
       IN  IF res.err # ""
           THEN /\ last' = [JfExchange("create", jf[w].thirdPartyId, TRUE,
                                       PanicStatus, ErrNone, NoToken)
                                EXCEPT !.panic = TRUE]
                /\ UNCHANGED users
           ELSE /\ Len(res.rows) <= MaxUsers
                /\ users' = res.rows
                /\ last' = JfExchange("create", jf[w].thirdPartyId, TRUE, 200,
                                      ErrNone, signJWT(res.user, secret, now))
    /\ jf' = [jf EXCEPT ![w] = IdleCall]
    /\ UNCHANGED <<watched, secret, jellyfinHost, now, running, issued>>
    /\ UNCHANGED reg

\* The route groups behind Use(AuthRequired()).
Routes == {"content", "watched", "watchedAdd", "activity", "profile"}
ContentIds == {0, 1}
\* Only the watched POST carries a content.
RouteContentIds(r) == IF r = "watchedAdd" THEN ContentIds ELSE {0}

\* addWatched(db, userId, content): a content without ID is refused, otherwise
\* a watched row for the user is inserted.
addWatched(rows, userId, contentId) ==
    IF contentId = 0 THEN [status |-> 403, rows |-> rows]
    ELSE [status |-> 200,
          rows |-> Append(rows, [userId |-> userId, contentId |-> contentId])]

\* A request to a protected route: the middleware, then the route's handler.
\* Only the watched POST handler writes.
Protected(route, header, contentId) ==
    /\ running
    /\ LET a == AuthRequired(header, secret, now)
           x == [NoExchange EXCEPT !.op = route, !.auth = header.kind]
       IN  IF ~a.next
           THEN /\ last' = [x EXCEPT !.status = 401]
                /\ UNCHANGED watched
           ELSE IF route = "watchedAdd"
           THEN LET r == addWatched(watched, a.userId, contentId)
                IN  /\ Len(r.rows) <= MaxWatched
                    /\ watched' = r.rows
                    /\ last' = [x EXCEPT !.status = r.status, !.ran = TRUE,
                                         !.userId = a.userId]
           ELSE /\ last' = [x EXCEPT !.status = 200, !.ran = TRUE,
                                     !.userId = a.userId]
                /\ UNCHANGED watched
    /\ UNCHANGED <<users, secret, jellyfinHost, now, running, issued, jf>>
    /\ UNCHANGED reg

ProtectedRequest(route, header) ==
    \E c \in RouteContentIds(route) : Protected(route, header, c)

\* The caller of the last exchange keeps the token it was given.
Keep ==
    /\ last.token.alg = "HS256"
    /\ last.token \notin issued
    /\ Cardinality(issued) < MaxHeld
    /\ issued' = issued \cup {last.token}
    /\ UNCHANGED <<users, watched, secret, jellyfinHost, now, running, jf, last>>
    /\ UNCHANGED reg

\* time passes
Tick ==
    /\ now < MaxTime
    /\ now' = now + 1
    /\ UNCHANGED <<users, watched, secret, jellyfinHost, running, issued, jf, last>>
    /\ UNCHANGED reg

\* The process is restarted with another JWT_SECRET in its environment: the
\* tables and the tokens callers hold outlive it, requests in flight do not.
Restart(k) ==
    /\ k # secret
    /\ secret' = k
    /\ running' = TRUE
    /\ jf' = [w \in Workers |-> IdleCall]
    /\ reg' = [w \in Workers |-> IdleReg]
    /\ UNCHANGED <<users, watched, jellyfinHost, now, issued, last>>

\* What a caller can put in the Authorization header.
Headers ==
    {NoHeader, BadHeader}
    \cup {Bearer(tok) : tok \in issued \cup ForgedTokens}

Next ==
    \/ \E b \in IdentityBodies, salt \in {"saltA"} :
          Register(b.username, b.password, b.type, salt)
    \/ \E b \in IdentityLogins : Login(b.username, b.password)
    \/ \E w \in Workers, b \in JellyfinBodies : JfStart(w, b.username, b.password)
    \/ \E w \in Workers, o \in ProviderOutcomes : JfRespond(w, o)
    \/ \E w \in Workers : JfCreate(w)

Spec == Init /\ [][Next]_vars

\* The local flows alone, over every request body.
NextLocal ==
    \/ \E b \in RegisterBodies, salt \in Salts :
          Register(b.username, b.password, b.type, salt)
    \/ \E b \in LoginBodies : Login(b.username, b.password)
    \/ \E b \in RegisterBodies, salt \in Salts :
          RegisterFatal(b.username, b.password, b.type, salt)

SpecLocal == Init /\ [][NextLocal]_vars

\* Sequences of delegated logins, one at a time.
NextDelegated ==
    \/ \E b \in JellyfinBodies : JfStart("w1", b.username, b.password)
    \/ \E o \in ProviderOutcomes : JfRespond("w1", o)
    \/ JfCreate("w1")

SpecDelegated == Init /\ [][NextDelegated]_vars

\* Sessions within one run of the process: tokens are issued, kept and
\* presented to the protected routes while time passes.
NextSession ==
    \/ \E b \in SessionBodies : Register(b.username, b.password, b.type, "saltA")
    \/ \E b \in SessionBodies : Login(b.username, b.password)
    \/ Keep
    \/ \E r \in Routes, h \in Headers : ProtectedRequest(r, h)
    \/ Tick

SpecSession == Init /\ [][NextSession]_vars

\* Sessions across restarts that change JWT_SECRET.
NextRotate ==
    \/ \E b \in RotateBodies : Register(b.username, b.password, b.type, "saltA")
    \/ \E b \in RotateBodies : Login(b.username, b.password)
    \/ Keep
    \/ \E r \in Routes, h \in Headers : ProtectedRequest(r, h)
    \/ Tick
    \/ \E k \in Secrets : Restart(k)

SpecRotate == Init /\ [][NextRotate]_vars

\* Register requests that run beside each other, one from each worker.
RaceBodies == {Body("alice", "pw1", 0), Body("alice", "pw2", 0),
               Body("alice", "pw1", 1), Body("bob", "pw1", 0),
               Body("", "pw1", 0)}

NextRace ==
    \/ \E w \in Workers, b \in RaceBodies, salt \in Salts :
          RegStart(w, b.username, b.password, b.type, salt)
    \/ \E w \in Workers : RegCreate(w)

SpecRace == Init /\ [][NextRace]_vars

\* Delegated logins under the scheduling the server gives them: a handler that
\* can take its next step does take it.  The response of the provider is not
\* the server's step: client.Do runs on an http.Client without Timeout and a
\* request without deadline, so nothing in the server makes it return.
SpecLive ==
    /\ Init
    /\ [][NextDelegated]_vars
    /\ WF_vars(JfCreate("w1"))

\* Every operation that reaches the users table, side by side: register,
\* login, two jellyfin logins in flight, and requests to the protected routes
\* with the tokens callers kept.
StoreBodies == {Body("alice", "pw1", 0), Body("alice", "pw1", 1)}
StoreOutcomes ==
    {o \in ProviderOutcomes : o.kind \in {"ok", "status"} /\ o.id # "X2"}

NextStore ==
    \/ \E b \in StoreBodies : Register(b.username, b.password, b.type, "saltA")
    \/ \E b \in StoreBodies : Login(b.username, b.password)
    \/ \E w \in Workers : JfStart(w, "alice", "pw1")
    \/ \E w \in Workers, o \in StoreOutcomes : JfRespond(w, o)
    \/ \E w \in Workers : JfCreate(w)
    \/ Keep
    \/ \E r \in {"watchedAdd", "profile"}, h \in Headers :
          ProtectedRequest(r, h)

SpecStore == Init /\ [][NextStore]_vars

\* Password hashes as a users table written by another release or by hand can
\* hold them: the one hashPassword makes, and one for each check of decodeHash.
WellFormedHash == EncodeHash("pw1", "saltA")
StoredHashes ==
    { WellFormedHash,
      SubSeq(WellFormedHash, 1, 5),
      Append(WellFormedHash, "x"),
      EmptyStr,
      [WellFormedHash EXCEPT ![3] = <<"v=x">>],
      [WellFormedHash EXCEPT ![3] = <<"v=", 16>>],
      [WellFormedHash EXCEPT ![4] = <<"m=", ArgonMemory, "t=", ArgonIterations>>],
      [WellFormedHash EXCEPT ![5] = <<"raw", "!!">>],
      [WellFormedHash EXCEPT ![6] = <<"raw", "!!">>] }

\* A table that already holds alice as a local user, with any of these hashes.
InitStored ==
    /\ \E h \in StoredHashes :
          users = << [NoUser EXCEPT !.id = 1, !.username = "alice",
                                    !.password = h] >>
    /\ watched = << >>
    /\ secret = "k1"
    /\ jellyfinHost \in Hosts
    /\ now = 0
    /\ running = TRUE
    /\ issued = {}
    /\ jf = [w \in Workers |-> IdleCall]
    /\ reg = [w \in Workers |-> IdleReg]
    /\ last = NoExchange

NextStored ==
    \/ \E b \in SessionBodies : Register(b.username, b.password, b.type, "saltA")
    \/ \E b \in LoginBodies : Login(b.username, b.password)

SpecStored == InitStored /\ [][NextStored]_vars

----------------------------------------------------------------------------
(* Properties *)

\* C1: no two rows of the users table share (username, type), and every row's
\* id is its own.
C1_UniqueNameAndType ==
    \A i, j \in 1..Len(users) :
        /\ users[i].id = i
        /\ (i # j =>
              ~(users[i].username = users[j].username
                /\ users[i].type = users[j].type))

\* C1 witness: a registered local user and a user created by a jellyfin login
\* have the same username and different ids.
C1_LocalAndDelegatedCoexist ==
    \E i, j \in 1..Len(users) :
        /\ users[i].username = users[j].username
        /\ users[i].type = LOCAL_USER
        /\ users[j].type = JELLYFIN_USER
        /\ users[j].thirdPartyId # ""
        /\ users[i].id # users[j].id

\* Whether a held token passes the middleware's parse now.
Verifies(tok) == ParseWithClaims(Bearer(tok), secret, now)

\* C2: a register call for a username that already has a local row answers
\* "User already exists" without a token, leaves the users table as it was,
\* and the tokens callers hold for that row verify after it.
C2_SecondRegisterRejected ==
    [][\A b \in SessionBodies :
          (/\ b.type = LOCAL_USER
           /\ LocalMatches(users, b.username) # {}
           /\ Register(b.username, b.password, b.type, "saltA"))
          => /\ last'.status = 403
             /\ last'.err = ErrUserExists
             /\ last'.token = NoToken
             /\ users' = users
             /\ \A tok \in issued' :
                   tok.userId \in LocalMatches(users, b.username)
                      => ParseWithClaims(Bearer(tok), secret', now')]_vars

\* C2 witness: the second register for a username was just rejected while a
\* caller holds the token the first one issued.
C2_RejectedWhileTokenHeld ==
    /\ last.op = "register"
    /\ last.err = ErrUserExists
    /\ \E tok \in issued :
          /\ tok.userId \in LocalMatches(users, last.username)
          /\ Verifies(tok)

\* C3 as claimed: a jellyfin login that the provider accepted with id X ends
\* with a token for a row whose thirdPartyId is X, and no thirdPartyId is on
\* two rows.
C3_DelegatedLoginResolves ==
    /\ \A x \in ThirdPartyIds : Cardinality(ThirdPartyMatches(users, x)) <= 1
    /\ (last.op = "jellyfin" /\ last.phase \in {"found", "create"})
          => /\ last.status = 200
             /\ last.token.userId \in ThirdPartyMatches(users, last.thirdPartyId)

\* The caller-visible part of a login result.
Visible(r) == [status |-> r.status, err |-> r.err]

\* C4 as claimed: a login for a username without a local row and a login with
\* a wrong password for a username that has one get the same response.
C4_SameErrorForUnknownAndWrong ==
    \A u1, u2 \in Names, q1, q2 \in Passwords :
        \A d1 \in TakeLocal(users, u1), d2 \in TakeLocal(users, u2) :
            (/\ d1.id = 0
             /\ d2.id # 0
             /\ login(d2, q2, secret, now).status # 200)
            => Visible(login(d1, q1, secret, now))
                 = Visible(login(d2, q2, secret, now))

\* C5: a request to a protected route whose Authorization header does not
\* verify against JWT_SECRET is answered 401, its handler does not run and no
\* table changes; a handler that runs got a header that verifies.
C5_HandlerOnlyBehindValidToken ==
    [][\A r \in Routes, h \in Headers :
          ProtectedRequest(r, h)
          => IF ParseWithClaims(h, secret, now)
             THEN last'.ran /\ last'.userId = h.token.userId
             ELSE /\ last'.status = 401
                  /\ ~last'.ran
                  /\ UNCHANGED <<users, watched, issued>>]_vars

\* C5 witness: a token signed with another key was just refused.
C5_WronglySignedRefused ==
    /\ last.op \in Routes
    /\ last.auth = "jwt"
    /\ last.status = 401
    /\ ~last.ran

\* C6: a token a caller holds verifies exactly when JWT_SECRET is the key it
\* was signed with, whatever has happened and however much time has passed
\* since.
C6_ValidIffSameSecret ==
    \A tok \in issued : Verifies(tok) <=> tok.key = secret

\* C6 witness: after a restart with another secret and after time has passed
\* a caller still holds a token signed with the old one.
C6_HeldTokenAfterRotation ==
    \E tok \in issued : tok.key # secret /\ now > tok.iat

\* The results a login for (u, q) can have on the current table.
LoginResults(u, q) == {login(d, q, secret, now) : d \in TakeLocal(users, u)}

\* C7 as claimed: once register(u, p) has answered with a token, a login for u
\* gets a token for the same id with q = p and "incorrect details" (no token)
\* with any other q.
C7_LoginAfterRegister ==
    (last.op = "register" /\ last.status = 200)
    => \A q \in Passwords : \A r \in LoginResults(last.username, q) :
          IF q = last.password
          THEN r.status = 200 /\ r.token.userId = last.token.userId
          ELSE r.err = ErrIncorrect /\ r.token = NoToken

\* C7 for the registrations whose body leaves type at 0: the same statement.
C7_LoginAfterLocalRegister ==
    (last.op = "register" /\ last.status = 200 /\ last.utype = LOCAL_USER)
    => \A q \in Passwords : \A r \in LoginResults(last.username, q) :
          IF q = last.password
          THEN r.status = 200 /\ r.token.userId = last.token.userId
          ELSE r.err = ErrIncorrect /\ r.token = NoToken

\* C8 as claimed: when a jellyfin login reaches its insert after another one
\* has inserted the same thirdPartyId, the store answers the late insert with
\* an error and the table ends with one row for that id.
C8_LostRaceIsConflict ==
    [][\A w \in Workers :
          (/\ jf[w].pc = "create"
           /\ ThirdPartyMatches(users, jf[w].thirdPartyId) # {}
           /\ JfCreate(w))
          => /\ DbCreate(users, JellyfinRow(jf[w].thirdPartyId, jf[w].name)).err
                  # ""
             /\ Cardinality(ThirdPartyMatches(users', jf[w].thirdPartyId)) = 1
       ]_vars

\* C9 as claimed: the row a successful register created has type 0 and a
\* non-empty password hash.
C9_RegisteredRowIsLocal ==
    (last.op = "register" /\ last.status = 200)
    => /\ users[last.token.userId].type = LOCAL_USER
       /\ users[last.token.userId].password # EmptyStr

\* C10: with JELLYFIN_HOST unset no request to the provider is ever in flight,
\* no row comes from a jellyfin login, and every loginJellyfin call answers
\* "jellyfin login not enabled" without a token; with it set no call does.
C10_ProviderDisabled ==
    /\ jellyfinHost = ""
          => /\ \A w \in Workers : jf[w].pc = "idle"
             /\ \A i \in 1..Len(users) : users[i].thirdPartyId = ""
             /\ (last.op = "jellyfin" /\ last.phase # "bind")
                   => /\ last.status = 403
                      /\ last.err = ErrJfDisabled
                      /\ last.token = NoToken
                      /\ ~last.called
    /\ (last.op = "jellyfin" /\ last.err = ErrJfDisabled) => jellyfinHost = ""

\* C10 witness: a jellyfin login was just refused as disabled.
C10_RefusedAsDisabled ==
    /\ jellyfinHost = ""
    /\ last.op = "jellyfin"
    /\ last.err = ErrJfDisabled
    /\ ~last.called

\* C11: hashing, hash-decoding and token errors fail only their own request:
\* the server process is still serving after any of them.
C11_ProcessKeepsServing == running

\* The shapes of stored hash the password check must refuse: not six fields,
\* a version or parameter field that does not scan, another argon2 version.
MalformedStored(h) ==
    \/ Len(h) # 6
    \/ Len(h[3]) # 2
    \/ h[3][2] # Argon2Version
    \/ Len(h[4]) # 6

\* C12: a login for a local user whose stored hash is malformed answers
\* "failed to login" whatever the password: never "incorrect details", never
\* a token.
C12_MalformedHashFailsClosed ==
    \A i \in LocalMatches(users, last.username) :
        (last.op = "login" /\ last.status # 400
            /\ MalformedStored(users[i].password))
        => (last.err = ErrLoginFailed /\ last.token = NoToken
              /\ last.status = 403)

\* C12 witness: a login with the password the hash was made from, against a
\* stored hash of another argon2 version, was refused as "failed to login".
C12_OldVersionRefused ==
    /\ last.op = "login" /\ last.username = "alice" /\ last.password = "pw1"
    /\ last.err = ErrLoginFailed
    /\ users[1].password = [WellFormedHash EXCEPT ![3] = <<"v=", 16>>]


C14_DelegatedRowShape ==
    [][ /\ (last'.op = "jellyfin" /\ Len(users') > Len(users)) =>
              \E w \in Workers :
                 /\ jf[w].pc = "create" /\ jf'[w].pc = "idle"
                 /\ Len(users') = Len(users) + 1
                 /\ users'[Len(users')].type = JELLYFIN_USER
                 /\ users'[Len(users')].thirdPartyId = jf[w].thirdPartyId
                 /\ users'[Len(users')].thirdPartyId # ""
                 /\ users'[Len(users')].password = EmptyStr
        /\ \A w \in Workers, o \in ProviderOutcomes :
              (JfRespond(w, o) /\ jf'[w].pc = "create") =>
                 (o.kind = "ok" /\ o.id # "" /\ jf'[w].thirdPartyId = o.id)
        /\ \A w \in Workers, o \in ProviderOutcomes :
              (JfRespond(w, o) /\ o.id = "") =>
                 (users' = users /\ jf'[w].pc = "idle")
      ]_vars

\* C14 witness: a jellyfin login has just created the row of identity X1.
C14_DelegatedRowCreated ==
    /\ last.op = "jellyfin" /\ last.phase = "create" /\ last.status = 200
    /\ last.thirdPartyId = "X1"
    /\ Len(users) >= 1
    /\ users[Len(users)].thirdPartyId = "X1"
    /\ users[Len(users)].type = JELLYFIN_USER


\* C15: a jellyfin login whose insert fails because a concurrent login has
\* already stored the same identity looks the identity up again and answers
\* with a token for the stored row.
C15_ConflictRetriesLookup ==
    [][ \A w \in Workers :
          (/\ JfCreate(w)
           /\ DbCreate(users, JellyfinRow(jf[w].thirdPartyId, jf[w].name)).err # ""
           /\ ThirdPartyMatches(users, jf[w].thirdPartyId) # {})
          => /\ last'.status = 200
             /\ \E i \in ThirdPartyMatches(users, jf[w].thirdPartyId) :
                   last'.token = signJWT(users[i], secret, now)
      ]_vars

\* C16: when the store rejects the insert of a jellyfin login, the request
\* answers "failed to create new user from jellyfin": the handler does not
\* panic, no token is issued and the table is unchanged.
C16_CreateFailureIsReturned ==
    [][ \A w \in Workers :
          (/\ JfCreate(w)
           /\ DbCreate(users, JellyfinRow(jf[w].thirdPartyId, jf[w].name)).err # "")
          => /\ last'.err = ErrJfCreate
             /\ last'.status = 403
             /\ ~last'.panic
             /\ last'.token = NoToken
             /\ users' = users
      ]_vars


\* A register call that got a token, and one refused as "User already exists".
RegWon(w) ==
    reg[w].status = 200 /\ reg[w].token # NoToken /\ reg[w].err = ErrNone
RegLost(w) ==
    reg[w].status = 403 /\ reg[w].token = NoToken /\ reg[w].err = ErrUserExists

\* C17: of two register requests with the same username that ran beside each
\* other, exactly one got a token and the other "User already exists", and
\* the table holds exactly one local row for that username.
C17_ConcurrentRegisterOneWins ==
    \A w, v \in Workers :
        (/\ w # v
         /\ reg[w].pc = "done" /\ reg[v].pc = "done"
         /\ reg[w].status # 400 /\ reg[v].status # 400
         /\ reg[w].username = reg[v].username)
        => /\ (RegWon(w) /\ RegLost(v)) \/ (RegWon(v) /\ RegLost(w))
           /\ Cardinality(LocalMatches(users, reg[w].username)) = 1

\* The same for two requests that both ask for a local user (type 0 or no
\* type in the body).
C17_ConcurrentLocalRegisterOneWins ==
    \A w, v \in Workers :
        (/\ w # v
         /\ reg[w].pc = "done" /\ reg[v].pc = "done"
         /\ reg[w].status # 400 /\ reg[v].status # 400
         /\ reg[w].username = reg[v].username
         /\ reg[w].type = LOCAL_USER /\ reg[v].type = LOCAL_USER)
        => /\ (RegWon(w) /\ RegLost(v)) \/ (RegWon(v) /\ RegLost(w))
           /\ Cardinality(LocalMatches(users, reg[w].username)) = 1


\* The rows of the table that are local users named u.
LocalRows(u) ==
    {i \in 1..Len(users) :
        users[i].username = u /\ users[i].type # JELLYFIN_USER}

\* C18: a login never gets a token for a row that is not a local user; with
\* the local user's password it gets a token carrying the local row's id, also
\* when a jellyfin row has the same username; with no local row of that name
\* it gets "User does not exist", also when a jellyfin row has that name.
C18_LoginResolvesLocalOnly ==
    [][ \A b \in LoginBodies :
          (Login(b.username, b.password) /\ BindUser(b.username, b.password))
          => /\ last'.token # NoToken =>
                   /\ last'.token.userId \in LocalRows(b.username)
                   /\ last'.token.username = b.username
             /\ LocalRows(b.username) = {} =>
                   (last'.err = ErrNoUser /\ last'.token = NoToken)
             /\ \A i \in LocalRows(b.username) :
                   (\E salt \in Salts :
                       users[i].password = EncodeHash(b.password, salt))
                   => (last'.status = 200 /\ last'.token.userId = i)
      ]_vars

\* C18 witness: alice exists as a jellyfin user (row 1) and as a local user
\* (row 2), and a login as alice got the token of row 2.
C18_LocalBesideDelegated ==
    /\ Len(users) = 2
    /\ users[1].username = "alice" /\ users[1].type = JELLYFIN_USER
    /\ users[1].thirdPartyId # ""
    /\ users[2].username = "alice" /\ users[2].type = LOCAL_USER
    /\ last.op = "login" /\ last.username = "alice"
    /\ last.token # NoToken /\ last.token.userId = 2


\* C19: a jellyfin login whose provider id is already in the table changes no
\* row, whatever display name the provider returns now, and answers with a
\* token carrying the id and the username of a stored row with that id.
C19_FoundIdentityIsReused ==
    [][ \A w \in Workers, o \in ProviderOutcomes :
          (/\ JfRespond(w, o)
           /\ o.kind = "ok" /\ o.id # ""
           /\ \E i \in 1..Len(users) : users[i].thirdPartyId = o.id)
          => /\ users' = users
             /\ jf'[w].pc = "idle"
             /\ last'.status = 200
             /\ \E i \in 1..Len(users) :
                   /\ users[i].thirdPartyId = o.id
                   /\ last'.token.userId = i
                   /\ last'.token.username = users[i].username
      ]_vars

\* C19 witness: identity X1 is stored as alice; the provider now calls it bob,
\* and the login got the token of the stored row, still named alice.
C19_RenamedUpstream ==
    /\ last.op = "jellyfin" /\ last.phase = "found" /\ last.thirdPartyId = "X1"
    /\ last.username = "bob"
    /\ Len(users) >= 1
    /\ users[1].thirdPartyId = "X1" /\ users[1].username = "alice"
    /\ last.token.userId = 1 /\ last.token.username = "alice"


ProviderFailed(o) == o.kind # "ok" \/ o.id = ""
ExpectedProviderError(o) ==
    IF o.kind \in {"transport", "read"} THEN ErrJfRequest
    ELSE IF o.kind = "status" THEN ErrIncorrect
    ELSE IF o.kind = "unparsable" THEN ErrJfProcess
    ELSE ErrJfEmptyId

\* C21: a jellyfin login maps each failed provider outcome to its own error:
\* non-200 status "incorrect details", transport failure "request failed",
\* unparsable body "failed to process response", empty user id "jellyfin
\* returned empty user id"; the call ends there, the table is unchanged and no
\* token is issued.
C21_ProviderErrorsMapped ==
    [][ \A w \in Workers, o \in ProviderOutcomes :
          (JfRespond(w, o) /\ ProviderFailed(o))
          => /\ last'.err = ExpectedProviderError(o)
             /\ last'.status = 403
             /\ last'.token = NoToken
             /\ users' = users
             /\ jf'[w].pc = "idle"
      ]_vars

\* The same for every outcome but a connection that fails while the response
\* body is read.
C21_ProviderErrorsMappedUnlessReadFails ==
    [][ \A w \in Workers, o \in ProviderOutcomes :
          (JfRespond(w, o) /\ ProviderFailed(o) /\ o.kind # "read")
          => /\ last'.err = ExpectedProviderError(o)
             /\ last'.status = 403
             /\ last'.token = NoToken
             /\ users' = users
             /\ jf'[w].pc = "idle"
      ]_vars


\* C22: every token that register, login or a jellyfin login issues carries a
\* non-zero userId that is the id of a row in the table as the response is
\* written, and that row's stored username.
C22_TokenNamesStoredRow ==
    [][ (last' # last /\ last'.token # NoToken)
          => /\ last'.op \in {"register", "login", "jellyfin"}
             /\ last'.token.userId # 0
             /\ last'.token.userId \in 1..Len(users')
             /\ users'[last'.token.userId].id = last'.token.userId
             /\ users'[last'.token.userId].username = last'.token.username
      ]_vars

\* C22 witness: a jellyfin login for the stored identity of row 2, which the
\* provider now calls by another name, got a token with id 2 and the stored
\* name.
C22_StoredNameInToken ==
    /\ last.op = "jellyfin" /\ last.phase = "found"
    /\ last.token.userId = 2
    /\ Len(users) = 2
    /\ users[2].username = last.token.username
    /\ last.username # last.token.username


\* C23: every jellyfin login that has sent its request to the provider
\* eventually completes, with a token or an error, also when the provider is
\* slow or never answers.
C23_DelegatedLoginCompletes ==
    (jf["w1"].pc = "await") ~> (jf["w1"].pc = "idle")

\* Once the provider has answered, the login does complete.
C23_CompletesOnceAnswered ==
    (jf["w1"].pc = "create") ~> (jf["w1"].pc = "idle")


====
